---- MODULE Spec2Model ----
(***************************************************************************)
(* Monty Hall game for the SAM4S Xplained Pro (src/main.c).                *)
(*                                                                         *)
(* The model covers the game core: pick_open_door (the door Monty opens)   *)
(* and handle_door_press (the round state machine and its statistics).     *)
(* rand() is a nondeterministic draw from 0..MaxRand.                      *)
(*                                                                         *)
(* Four specifications share the variables:                                *)
(*   Spec          handle_door_press driven by valid presses (doors 1..3)  *)
(*   SpecPick      pick_open_door called repeatedly on one valid pair      *)
(*   SpecContract  handle_door_press driven by any caller: any uint32 door *)
(*                 value up to MaxDoorValue, and a NULL controller         *)
(*   SpecMain      main's loop interleaved with the three button           *)
(*                 interrupt handlers, which share g_door_pressed          *)
(***************************************************************************)
EXTENDS Integers, Sequences, FiniteSets

---------------------------------------------------------------------------
(* Bounds of the model *)

\* rand() returns 0..RAND_MAX; 0..MaxRand covers every residue mod 3 and mod 2
MaxRand == 3
\* rounds played before the model stops completing rounds (the counters are
\* uint32_t in the code and stay far below 2^32 here)
MaxGames == 3
\* the count of consecutive rejected presses saturates here
MaxRejects == 3
\* calls of pick_open_door in one SpecPick run
MaxCalls == 3
\* largest uint32 value a caller passes as a door in SpecContract
MaxDoorValue == 4

---------------------------------------------------------------------------
(* enum DOOR_PRESSED_EVENTS *)
DOOR_PRESSED_MIN == 1
DOOR_PRESSED_MAX == 3
DOOR_NOT_PRESSED == DOOR_PRESSED_MAX + 1

(* enum MONTY_HALL_STATE *)
MONTY_GAME_STARTED == 0
FIRST_DOOR_OPEN == 1
GAME_OVER_WON == 2
GAME_OVER_LOST == 3

Doors == DOOR_PRESSED_MIN..DOOR_PRESSED_MAX
RandValues == 0..MaxRand
DoorValues == 0..MaxDoorValue

VARIABLES
  game_state,        \* main's monty_hall_state game_state
  result,            \* value returned by the last handle_door_press call
  new_door_press,    \* door argument of the last handle_door_press call
  prev,              \* game_state as it was when the last call was entered
  rand_calls,        \* number of rand() calls made by the last call
  rejected_run,      \* consecutive rejected presses up to now (saturating)
  entered,           \* game_state after the last call that was not rejected
  rounds_completed,  \* transitions FIRST_DOOR_OPEN -> GAME_OVER_* so far
  calls,             \* number of handle_door_press calls so far: 0, or 1 for "some"
  ever_switched,     \* some round was resolved by a door other than first_door
  ever_stayed,       \* some round was resolved by first_door
  g_door_pressed,    \* volatile uint32_t g_door_pressed, the one-slot mailbox
  pc,                \* main's position in its loop: test, call, reset, report, fault
  tested,            \* the value the test of the loop read from g_door_pressed
  game_over,         \* main's local game_over, as the last report set it
  zero_divs,         \* divisions the last report made with a zero denominator
  mailbox_passed,    \* calls that were given the value now in g_door_pressed
  discarded,         \* the last reset overwrote a press no call was given
  pick_args,         \* SpecPick: the (winning_door, first_door) pair under test
  pick_calls         \* SpecPick: the calls made, each [random_value, open_door]

vars == <<game_state, result, new_door_press, prev, rand_calls, rejected_run,
          entered, rounds_completed, calls, ever_switched, ever_stayed,
          g_door_pressed, pc, tested, game_over, zero_divs, mailbox_passed,
          discarded, pick_args, pick_calls>>

ctlvars == <<game_state, result, new_door_press, prev, rand_calls, rejected_run,
             entered, rounds_completed, calls, ever_switched, ever_stayed>>

mainvars == <<g_door_pressed, pc, tested, game_over, zero_divs, mailbox_passed,
              discarded>>

pickvars == <<pick_args, pick_calls>>

---------------------------------------------------------------------------
(* uint32_t pick_open_door( uint32_t winning_door, uint32_t first_door )   *)
(* random_value is what rand() returns if the function calls it.           *)

\* pick_open_door without the second "can't pick this door" test
pick_open_door_no_recheck(winning_door, first_door, random_value) ==
  IF first_door # winning_door
  THEN IF first_door = 1 THEN (IF winning_door = 2 THEN 3 ELSE 2)
       ELSE IF first_door = 2 THEN (IF winning_door = 3 THEN 1 ELSE 3)
       ELSE IF first_door = 3 THEN (IF winning_door = 1 THEN 2 ELSE 1)
       ELSE DOOR_NOT_PRESSED
  ELSE LET open_a == IF 1 = winning_door THEN 2 ELSE 1
           open_b == IF random_value % 2 = 1 THEN open_a + 1 ELSE open_a
       IN  open_b

\* pick_open_door testing bit 1 of the random value (random_value & 0x2)
pick_open_door_wrong_bit(winning_door, first_door, random_value) ==
  IF first_door # winning_door
  THEN IF first_door = 1 THEN (IF winning_door = 2 THEN 3 ELSE 2)
       ELSE IF first_door = 2 THEN (IF winning_door = 3 THEN 1 ELSE 3)
       ELSE IF first_door = 3 THEN (IF winning_door = 1 THEN 2 ELSE 1)
       ELSE DOOR_NOT_PRESSED
  ELSE LET open_a == IF 1 = winning_door THEN 2 ELSE 1
           open_b == IF (random_value \div 2) % 2 = 1 THEN open_a + 1 ELSE open_a
           open_c == IF open_b = winning_door THEN open_b + 1 ELSE open_b
       IN  open_c

\* pick_open_door with the two results of each inner test swapped
pick_open_door_opens_winning(winning_door, first_door, random_value) ==
  IF first_door # winning_door
  THEN IF first_door = 1 THEN (IF winning_door = 2 THEN 2 ELSE 3)
       ELSE IF first_door = 2 THEN (IF winning_door = 3 THEN 3 ELSE 1)
       ELSE IF first_door = 3 THEN (IF winning_door = 1 THEN 1 ELSE 2)
       ELSE DOOR_NOT_PRESSED
  ELSE LET open_a == IF 1 = winning_door THEN 2 ELSE 1
           open_b == IF random_value % 2 = 1 THEN open_a + 1 ELSE open_a
           open_c == IF open_b = winning_door THEN open_b + 1 ELSE open_b
       IN  open_c

pick_open_door(winning_door, first_door, random_value) ==
  IF first_door # winning_door
  THEN IF first_door = 1 THEN (IF winning_door = 2 THEN 3 ELSE 2)
       ELSE IF first_door = 2 THEN (IF winning_door = 3 THEN 1 ELSE 3)
       ELSE IF first_door = 3 THEN (IF winning_door = 1 THEN 2 ELSE 1)
       ELSE DOOR_NOT_PRESSED
  ELSE LET open_a == IF 1 = winning_door THEN 2 ELSE 1
           open_b == IF random_value % 2 = 1 THEN open_a + 1 ELSE open_a
           open_c == IF open_b = winning_door THEN open_b + 1 ELSE open_b
       IN  open_c

\* the number of rand() calls pick_open_door makes
\* rand() called at the top of pick_open_door, before the test
pick_rand_calls_always(winning_door, first_door) == 1

pick_rand_calls(winning_door, first_door) ==
  IF first_door # winning_door THEN 0 ELSE 1

---------------------------------------------------------------------------
(* int32_t handle_door_press( monty_hall_state *p_game_state,              *)
(*                            uint32_t new_door_press )                    *)
(* Each case yields the struct after the call, the return value and the    *)
(* number of rand() calls made.                                            *)

\* the Started case revealing a door before winning_door is drawn
case_MONTY_GAME_STARTED_stale_winning(gs, door, r1, r2) ==
  LET winning == (r1 % 3) + 1
      s1 == [gs EXCEPT !.open_door = pick_open_door(gs.winning_door, door, r2)]
      s2 == [s1 EXCEPT !.winning_door = winning,
                       !.first_door = door,
                       !.state = FIRST_DOOR_OPEN]
  IN  [game_state |-> s2, ret |-> 0,
       rands |-> 1 + pick_rand_calls(gs.winning_door, door)]

\* the Started case drawing rand() % 3 without the + 1
case_MONTY_GAME_STARTED_zero_based(gs, door, r1, r2) ==
  LET winning == r1 % 3
      s1 == [gs EXCEPT !.winning_door = winning,
                       !.first_door = door,
                       !.state = FIRST_DOOR_OPEN]
      s2 == [s1 EXCEPT !.open_door = pick_open_door(s1.winning_door, door, r2)]
  IN  [game_state |-> s2, ret |-> 0,
       rands |-> 1 + pick_rand_calls(winning, door)]

case_MONTY_GAME_STARTED(gs, door, r1, r2) ==
  LET winning == (r1 % 3) + 1
      s1 == [gs EXCEPT !.winning_door = winning,
                       !.first_door = door,
                       !.state = FIRST_DOOR_OPEN]
      s2 == [s1 EXCEPT !.open_door = pick_open_door(s1.winning_door, door, r2)]
  IN  [game_state |-> s2, ret |-> 0,
       rands |-> 1 + pick_rand_calls(winning, door)]

\* the FirstDoorOpen case counting every win as a switched win
case_FIRST_DOOR_OPEN_switched_won_always(gs, door) ==
  IF gs.open_door = door
  THEN [game_state |-> gs, ret |-> -1, rands |-> 0]
  ELSE LET s1 == IF gs.winning_door = door
                 THEN [gs EXCEPT !.state = GAME_OVER_WON, !.times_won = @ + 1]
                 ELSE [gs EXCEPT !.state = GAME_OVER_LOST]
           s2 == IF s1.first_door # door
                 THEN [s1 EXCEPT !.times_switched = @ + 1]
                 ELSE s1
           s3 == IF s2.state = GAME_OVER_WON
                 THEN [s2 EXCEPT !.times_switched_won = @ + 1]
                 ELSE s2
           s4 == [s3 EXCEPT !.number_of_games = @ + 1]
       IN  [game_state |-> s4, ret |-> 0, rands |-> 0]

\* the FirstDoorOpen case rejecting the first door instead of the open door
case_FIRST_DOOR_OPEN_rejects_first_door(gs, door) ==
  IF gs.first_door = door
  THEN [game_state |-> gs, ret |-> -1, rands |-> 0]
  ELSE LET s1 == IF gs.winning_door = door
                 THEN [gs EXCEPT !.state = GAME_OVER_WON, !.times_won = @ + 1]
                 ELSE [gs EXCEPT !.state = GAME_OVER_LOST]
           s2 == IF s1.first_door # door
                 THEN LET t == [s1 EXCEPT !.times_switched = @ + 1]
                      IN  IF t.state = GAME_OVER_WON
                          THEN [t EXCEPT !.times_switched_won = @ + 1]
                          ELSE t
                 ELSE s1
           s3 == [s2 EXCEPT !.number_of_games = @ + 1]
       IN  [game_state |-> s3, ret |-> 0, rands |-> 0]

\* the FirstDoorOpen case with the switch test inverted (first_door == press)
case_FIRST_DOOR_OPEN_switch_inverted(gs, door) ==
  IF gs.open_door = door
  THEN [game_state |-> gs, ret |-> -1, rands |-> 0]
  ELSE LET s1 == IF gs.winning_door = door
                 THEN [gs EXCEPT !.state = GAME_OVER_WON, !.times_won = @ + 1]
                 ELSE [gs EXCEPT !.state = GAME_OVER_LOST]
           s2 == IF s1.first_door = door
                 THEN LET t == [s1 EXCEPT !.times_switched = @ + 1]
                      IN  IF t.state = GAME_OVER_WON
                          THEN [t EXCEPT !.times_switched_won = @ + 1]
                          ELSE t
                 ELSE s1
           s3 == [s2 EXCEPT !.number_of_games = @ + 1]
       IN  [game_state |-> s3, ret |-> 0, rands |-> 0]

\* the FirstDoorOpen case deciding the win against first_door
case_FIRST_DOOR_OPEN_win_by_first_door(gs, door) ==
  IF gs.open_door = door
  THEN [game_state |-> gs, ret |-> -1, rands |-> 0]
  ELSE LET s1 == IF gs.first_door = door
                 THEN [gs EXCEPT !.state = GAME_OVER_WON, !.times_won = @ + 1]
                 ELSE [gs EXCEPT !.state = GAME_OVER_LOST]
           s2 == IF s1.first_door # door
                 THEN LET t == [s1 EXCEPT !.times_switched = @ + 1]
                      IN  IF t.state = GAME_OVER_WON
                          THEN [t EXCEPT !.times_switched_won = @ + 1]
                          ELSE t
                 ELSE s1
           s3 == [s2 EXCEPT !.number_of_games = @ + 1]
       IN  [game_state |-> s3, ret |-> 0, rands |-> 0]

\* the FirstDoorOpen case counting the game before the rejection test
case_FIRST_DOOR_OPEN_counts_rejected(gs, door) ==
  IF gs.open_door = door
  THEN [game_state |-> [gs EXCEPT !.number_of_games = @ + 1],
        ret |-> -1, rands |-> 0]
  ELSE LET s1 == IF gs.winning_door = door
                 THEN [gs EXCEPT !.state = GAME_OVER_WON, !.times_won = @ + 1]
                 ELSE [gs EXCEPT !.state = GAME_OVER_LOST]
           s2 == IF s1.first_door # door
                 THEN LET t == [s1 EXCEPT !.times_switched = @ + 1]
                      IN  IF t.state = GAME_OVER_WON
                          THEN [t EXCEPT !.times_switched_won = @ + 1]
                          ELSE t
                 ELSE s1
           s3 == [s2 EXCEPT !.number_of_games = @ + 1]
       IN  [game_state |-> s3, ret |-> 0, rands |-> 0]

\* the FirstDoorOpen case returning 0 for the rejected press
case_FIRST_DOOR_OPEN_rejection_returns_0(gs, door) ==
  IF gs.open_door = door
  THEN [game_state |-> gs, ret |-> 0, rands |-> 0]
  ELSE LET s1 == IF gs.winning_door = door
                 THEN [gs EXCEPT !.state = GAME_OVER_WON, !.times_won = @ + 1]
                 ELSE [gs EXCEPT !.state = GAME_OVER_LOST]
           s2 == IF s1.first_door # door
                 THEN LET t == [s1 EXCEPT !.times_switched = @ + 1]
                      IN  IF t.state = GAME_OVER_WON
                          THEN [t EXCEPT !.times_switched_won = @ + 1]
                          ELSE t
                 ELSE s1
           s3 == [s2 EXCEPT !.number_of_games = @ + 1]
       IN  [game_state |-> s3, ret |-> 0, rands |-> 0]

\* the FirstDoorOpen case storing the final press in first_door
case_FIRST_DOOR_OPEN_stores_press(gs, door) ==
  IF gs.open_door = door
  THEN [game_state |-> gs, ret |-> -1, rands |-> 0]
  ELSE LET s1 == IF gs.winning_door = door
                 THEN [gs EXCEPT !.state = GAME_OVER_WON, !.times_won = @ + 1]
                 ELSE [gs EXCEPT !.state = GAME_OVER_LOST]
           s2 == IF s1.first_door # door
                 THEN LET t == [s1 EXCEPT !.times_switched = @ + 1]
                      IN  IF t.state = GAME_OVER_WON
                          THEN [t EXCEPT !.times_switched_won = @ + 1]
                          ELSE t
                 ELSE s1
           s3 == [s2 EXCEPT !.number_of_games = @ + 1, !.first_door = door]
       IN  [game_state |-> s3, ret |-> 0, rands |-> 0]

\* the FirstDoorOpen case going straight back to Started after a lost round
case_FIRST_DOOR_OPEN_lost_restarts(gs, door) ==
  IF gs.open_door = door
  THEN [game_state |-> gs, ret |-> -1, rands |-> 0]
  ELSE LET s1 == IF gs.winning_door = door
                 THEN [gs EXCEPT !.state = GAME_OVER_WON, !.times_won = @ + 1]
                 ELSE [gs EXCEPT !.state = MONTY_GAME_STARTED]
           s2 == IF s1.first_door # door
                 THEN LET t == [s1 EXCEPT !.times_switched = @ + 1]
                      IN  IF t.state = GAME_OVER_WON
                          THEN [t EXCEPT !.times_switched_won = @ + 1]
                          ELSE t
                 ELSE s1
           s3 == [s2 EXCEPT !.number_of_games = @ + 1]
       IN  [game_state |-> s3, ret |-> 0, rands |-> 0]

case_FIRST_DOOR_OPEN(gs, door) ==
  IF gs.open_door = door
  THEN [game_state |-> gs, ret |-> -1, rands |-> 0]
  ELSE LET s1 == IF gs.winning_door = door
                 THEN [gs EXCEPT !.state = GAME_OVER_WON, !.times_won = @ + 1]
                 ELSE [gs EXCEPT !.state = GAME_OVER_LOST]
           s2 == IF s1.first_door # door
                 THEN LET t == [s1 EXCEPT !.times_switched = @ + 1]
                      IN  IF t.state = GAME_OVER_WON
                          THEN [t EXCEPT !.times_switched_won = @ + 1]
                          ELSE t
                 ELSE s1
           s3 == [s2 EXCEPT !.number_of_games = @ + 1]
       IN  [game_state |-> s3, ret |-> 0, rands |-> 0]

\* the game-over case closing the open door on restart
case_GAME_OVER_clears_open_door(gs) ==
  [game_state |-> [gs EXCEPT !.state = MONTY_GAME_STARTED,
                             !.open_door = DOOR_NOT_PRESSED],
   ret |-> 0, rands |-> 0]

case_GAME_OVER(gs) ==
  [game_state |-> [gs EXCEPT !.state = MONTY_GAME_STARTED], ret |-> 0, rands |-> 0]

handle_door_press(p_null, gs, door, r1, r2) ==
  IF p_null
  THEN [game_state |-> gs, ret |-> -1, rands |-> 0]
  ELSE IF gs.state = MONTY_GAME_STARTED THEN case_MONTY_GAME_STARTED(gs, door, r1, r2)
       ELSE IF gs.state = FIRST_DOOR_OPEN THEN case_FIRST_DOOR_OPEN(gs, door)
       ELSE case_GAME_OVER(gs)

---------------------------------------------------------------------------
(* The state after construction: main's initializer of game_state *)

game_state_init ==
  [number_of_games |-> 0, times_switched |-> 0, times_switched_won |-> 0,
   times_won |-> 0, state |-> MONTY_GAME_STARTED,
   first_door |-> DOOR_NOT_PRESSED, open_door |-> DOOR_NOT_PRESSED,
   winning_door |-> DOOR_NOT_PRESSED]

InitCtl ==
  /\ game_state = game_state_init
  /\ result = 0
  /\ new_door_press = DOOR_NOT_PRESSED
  /\ prev = game_state_init
  /\ rand_calls = 0
  /\ rejected_run = 0
  /\ entered = game_state_init
  /\ rounds_completed = 0
  /\ calls = 0
  /\ ever_switched = FALSE
  /\ ever_stayed = FALSE

\* g_door_pressed's initializer and main about to enter its loop
InitMain ==
  /\ g_door_pressed = DOOR_NOT_PRESSED
  /\ pc = "test"
  /\ tested = DOOR_NOT_PRESSED
  /\ game_over = FALSE
  /\ zero_divs = {}
  /\ mailbox_passed = 0
  /\ discarded = FALSE

Init ==
  /\ InitCtl
  /\ InitMain
  /\ pick_args = [winning_door |-> 1, first_door |-> 1]
  /\ pick_calls = << >>

\* one call of handle_door_press and the bookkeeping about it
Call(p_null, door, r1, r2) ==
  LET out == handle_door_press(p_null, game_state, door, r1, r2)
      rejected == ~p_null /\ game_state.state = FIRST_DOOR_OPEN
                  /\ door = game_state.open_door
      resolving == ~p_null /\ game_state.state = FIRST_DOOR_OPEN
                   /\ door # game_state.open_door
  IN  /\ out.game_state.number_of_games <= MaxGames
      /\ game_state' = out.game_state
      /\ result' = out.ret
      /\ new_door_press' = door
      /\ prev' = game_state
      /\ rand_calls' = out.rands
      /\ rejected_run' = IF rejected
                         THEN (IF rejected_run < MaxRejects
                               THEN rejected_run + 1 ELSE MaxRejects)
                         ELSE 0
      /\ entered' = IF rejected THEN entered ELSE out.game_state
      /\ rounds_completed' =
           IF /\ game_state.state = FIRST_DOOR_OPEN
              /\ out.game_state.state \in {GAME_OVER_WON, GAME_OVER_LOST}
           THEN rounds_completed + 1 ELSE rounds_completed
      /\ calls' = 1
      /\ ever_switched' =
           (ever_switched \/ (resolving /\ door # game_state.first_door))
      /\ ever_stayed' =
           (ever_stayed \/ (resolving /\ door = game_state.first_door))
      /\ UNCHANGED pickvars

\* a press of one of the three doors, handed to the controller
Press ==
  \E door \in Doors, r1 \in RandValues, r2 \in RandValues :
     Call(FALSE, door, r1, r2) /\ UNCHANGED mainvars

Next == Press

Spec == Init /\ [][Next]_vars

---------------------------------------------------------------------------
(* SpecPick: pick_open_door called up to MaxCalls times on one pair of     *)
(* valid doors, each call with its own rand() value.                       *)

InitPick ==
  /\ InitCtl
  /\ InitMain
  /\ pick_args \in [winning_door : Doors, first_door : Doors]
  /\ pick_calls = << >>

CallPick ==
  /\ Len(pick_calls) < MaxCalls
  /\ \E r \in RandValues :
       pick_calls' = Append(pick_calls,
          [random_value |-> r,
           open_door |-> pick_open_door(pick_args.winning_door,
                                        pick_args.first_door, r)])
  /\ UNCHANGED pick_args
  /\ UNCHANGED ctlvars
  /\ UNCHANGED mainvars

NextPick == CallPick

SpecPick == InitPick /\ [][NextPick]_vars

---------------------------------------------------------------------------
(* SpecContract: handle_door_press called by an arbitrary caller.          *)

\* a call with any uint32 door value, the sentinel included
PressAny ==
  \E door \in DoorValues, r1 \in RandValues, r2 \in RandValues :
     Call(FALSE, door, r1, r2) /\ UNCHANGED mainvars

\* a call with p_game_state == NULL
PressNull ==
  \E door \in DoorValues : Call(TRUE, door, 0, 0) /\ UNCHANGED mainvars

NextContract == PressAny \/ PressNull

SpecContract == Init /\ [][NextContract]_vars

---------------------------------------------------------------------------
(* SpecMain: the loop of main and the button interrupts.                   *)
(* The interrupt handlers run between any two accesses main makes to the   *)
(* volatile g_door_pressed; handle_door_press works on its by-value        *)
(* argument and on game_state, which no handler touches.                   *)

\* ProcessButtonEvt with the range test exclusive at both ends
ProcessButtonEvt_exclusive_range(uc_button) ==
  IF uc_button > DOOR_PRESSED_MIN /\ uc_button < DOOR_PRESSED_MAX
  THEN uc_button
  ELSE DOOR_NOT_PRESSED

\* static void ProcessButtonEvt(uint8_t uc_button): the value it stores
ProcessButtonEvt(uc_button) ==
  IF uc_button >= DOOR_PRESSED_MIN /\ uc_button <= DOOR_PRESSED_MAX
  THEN uc_button
  ELSE DOOR_NOT_PRESSED

\* Button1_Handler, Button2_Handler, Button3_Handler
Button_Handler ==
  /\ pc # "fault"
  /\ \E button \in 1..3 :
        g_door_pressed' = ProcessButtonEvt(button)
  /\ mailbox_passed' = 0
  /\ UNCHANGED <<pc, tested, game_over, zero_divs, discarded>>
  /\ UNCHANGED ctlvars
  /\ UNCHANGED pickvars

\* if( g_door_pressed != DOOR_NOT_PRESSED ), else on to delay_ms and around
MainTest ==
  /\ pc = "test"
  /\ tested' = g_door_pressed
  /\ pc' = IF g_door_pressed # DOOR_NOT_PRESSED THEN "call" ELSE "test"
  /\ UNCHANGED <<g_door_pressed, game_over, zero_divs, mailbox_passed, discarded>>
  /\ UNCHANGED ctlvars
  /\ UNCHANGED pickvars

\* result = handle_door_press( &game_state, g_door_pressed ): the second read
MainCall ==
  /\ pc = "call"
  /\ \E r1 \in RandValues, r2 \in RandValues :
        Call(FALSE, g_door_pressed, r1, r2)
  /\ mailbox_passed' = mailbox_passed + 1
  /\ pc' = "reset"
  /\ UNCHANGED <<g_door_pressed, tested, game_over, zero_divs, discarded>>

\* g_door_pressed = DOOR_NOT_PRESSED
MainReset ==
  /\ pc = "reset"
  /\ g_door_pressed' = DOOR_NOT_PRESSED
  /\ discarded' = (g_door_pressed # DOOR_NOT_PRESSED /\ mailbox_passed = 0)
  /\ mailbox_passed' = 0
  /\ pc' = "report"
  /\ UNCHANGED <<tested, game_over, zero_divs>>
  /\ UNCHANGED ctlvars
  /\ UNCHANGED pickvars

\* the statistics with each division skipped when its denominator is zero
stats_zero_divisions_guarded(gs) == {}

\* the three divisions of the game-over report that divide by zero
stats_zero_divisions(gs) ==
  {name \in {"win_pct", "switching_win_pct", "staying_win_pct"} :
     CASE name = "win_pct" -> gs.number_of_games = 0
       [] name = "switching_win_pct" -> gs.times_switched = 0
       [] name = "staying_win_pct" -> gs.number_of_games - gs.times_switched = 0}

\* the rest of the loop body: the report of the state, and at game over the
\* statistics and the closing of the open door.  An integer division by zero
\* is undefined: the program goes on with some quotient, or it faults.
MainReport ==
  /\ pc = "report"
  /\ game_over' = (game_state.state \in {GAME_OVER_WON, GAME_OVER_LOST})
  /\ IF game_over'
     THEN /\ zero_divs' = stats_zero_divisions(game_state)
          /\ \/ /\ game_state' = [game_state EXCEPT !.open_door = DOOR_NOT_PRESSED]
                /\ pc' = "test"
             \/ /\ zero_divs' # {}
                /\ game_state' = game_state
                /\ pc' = "fault"
     ELSE /\ zero_divs' = {}
          /\ game_state' = game_state
          /\ pc' = "test"
  /\ UNCHANGED <<g_door_pressed, tested, mailbox_passed, discarded>>
  /\ UNCHANGED <<result, new_door_press, prev, rand_calls, rejected_run,
                 entered, rounds_completed, calls, ever_switched, ever_stayed>>
  /\ UNCHANGED pickvars

NextMain == Button_Handler \/ MainTest \/ MainCall \/ MainReset \/ MainReport

SpecMain == Init /\ [][NextMain]_vars

---------------------------------------------------------------------------
(* Shorthands for the properties *)

Counters(gs) ==
  <<gs.number_of_games, gs.times_switched, gs.times_switched_won, gs.times_won>>

RoundDoors(gs) == <<gs.first_door, gs.open_door, gs.winning_door>>

PickCallIds == 1..Len(pick_calls)

RandomBit(i) == pick_calls[i].random_value % 2

\* the last handle_door_press call was made in state s
LastCallIn(s) == calls = 1 /\ prev.state = s

---------------------------------------------------------------------------
(* C1: for every winning door and first door in 1..3 and every rand()      *)
(* value, pick_open_door returns a door in 1..3 that is neither the        *)
(* winning door nor the first door.                                        *)
C1_RevealAvoidsWinningAndFirst ==
  \A i \in PickCallIds :
     /\ pick_calls[i].open_door \in Doors
     /\ pick_calls[i].open_door # pick_args.winning_door
     /\ pick_calls[i].open_door # pick_args.first_door

\* the random branch where the incremented door lands on the winning door
C1_Witness ==
  /\ pick_args.winning_door = 2
  /\ pick_args.first_door = 2
  /\ \E i \in PickCallIds : RandomBit(i) = 1 /\ pick_calls[i].open_door = 3

(* C2: when first_door = winning_door, calls with the same random bit give *)
(* the same door, calls with different bits give different doors, and the  *)
(* doors of the two bits are exactly the two doors other than the winning  *)
(* door.                                                                   *)
C2_RandomBitSelectsRemainingDoor ==
  pick_args.first_door = pick_args.winning_door =>
    /\ \A i, j \in PickCallIds :
          (RandomBit(i) = RandomBit(j))
             <=> (pick_calls[i].open_door = pick_calls[j].open_door)
    /\ {RandomBit(i) : i \in PickCallIds} = {0, 1} =>
          {pick_calls[i].open_door : i \in PickCallIds}
             = Doors \ {pick_args.winning_door}

\* both bit values were fed for a pair with first_door = winning_door
C2_Witness ==
  /\ pick_args.first_door = pick_args.winning_door
  /\ pick_args.winning_door = 1
  /\ {RandomBit(i) : i \in PickCallIds} = {0, 1}
  /\ {pick_calls[i].open_door : i \in PickCallIds} = {2, 3}

(* C3: after every press, times_won <= number_of_games and                 *)
(* times_switched_won <= times_switched <= number_of_games.                *)
C3_CountersOrdered ==
  /\ game_state.times_won <= game_state.number_of_games
  /\ game_state.times_switched_won <= game_state.times_switched
  /\ game_state.times_switched <= game_state.number_of_games

\* a won round without a switch has just been counted
C3_Witness ==
  /\ LastCallIn(FIRST_DOOR_OPEN)
  /\ game_state.state = GAME_OVER_WON
  /\ new_door_press = game_state.first_door
  /\ game_state.times_won = 1
  /\ game_state.times_switched_won = 0
  /\ game_state.times_switched = 0
  /\ game_state.number_of_games = 1

(* C4: a press of the open door in FirstDoorOpen leaves state, first_door, *)
(* open_door, winning_door and the four counters unchanged; after any      *)
(* number of consecutive such presses the controller is as it was before   *)
(* the first of them.                                                      *)
C4_RejectedPressesChangeNothing ==
  rejected_run > 0 =>
    /\ game_state = prev
    /\ game_state = entered
    /\ game_state.state = FIRST_DOOR_OPEN

\* two or more rejected presses in a row
C4_Witness ==
  /\ rejected_run >= 2
  /\ new_door_press = game_state.open_door
  /\ game_state.state = FIRST_DOOR_OPEN

(* C6: in Started a press of a valid door d returns 0 and moves to         *)
(* FirstDoorOpen with first_door = d, winning_door in 1..3 and open_door   *)
(* in 1..3 different from d and from winning_door; no counter changes.     *)
C6_StartedPressOpensADoor ==
  LastCallIn(MONTY_GAME_STARTED) =>
    /\ result = 0
    /\ game_state.state = FIRST_DOOR_OPEN
    /\ game_state.first_door = new_door_press
    /\ game_state.winning_door \in Doors
    /\ game_state.open_door \in Doors
    /\ game_state.open_door # new_door_press
    /\ game_state.open_door # game_state.winning_door
    /\ Counters(game_state) = Counters(prev)

\* a second round starts on the winning door, with counters already set
C6_Witness ==
  /\ LastCallIn(MONTY_GAME_STARTED)
  /\ game_state.state = FIRST_DOOR_OPEN
  /\ game_state.number_of_games = 1
  /\ game_state.first_door = game_state.winning_door
  /\ prev.winning_door # game_state.winning_door

(* C7: in FirstDoorOpen a press of the door that is neither open_door nor  *)
(* first_door adds 1 to number_of_games and to times_switched; if it is    *)
(* the winning door the state is Won and times_won and times_switched_won  *)
(* each grow by 1, otherwise the state is Lost and both are unchanged.     *)
C7_SwitchingPress ==
  ( /\ LastCallIn(FIRST_DOOR_OPEN)
    /\ new_door_press # prev.open_door
    /\ new_door_press # prev.first_door ) =>
    /\ game_state.number_of_games = prev.number_of_games + 1
    /\ game_state.times_switched = prev.times_switched + 1
    /\ IF new_door_press = prev.winning_door
       THEN /\ game_state.state = GAME_OVER_WON
            /\ game_state.times_won = prev.times_won + 1
            /\ game_state.times_switched_won = prev.times_switched_won + 1
       ELSE /\ game_state.state = GAME_OVER_LOST
            /\ game_state.times_won = prev.times_won
            /\ game_state.times_switched_won = prev.times_switched_won

\* a switch that wins, in a round after a lost one
C7_Witness ==
  /\ LastCallIn(FIRST_DOOR_OPEN)
  /\ new_door_press # prev.open_door
  /\ new_door_press # prev.first_door
  /\ new_door_press = prev.winning_door
  /\ game_state.state = GAME_OVER_WON
  /\ game_state.number_of_games = 2
  /\ game_state.times_won = 1

(* C8: in FirstDoorOpen a press of first_door leaves times_switched and    *)
(* times_switched_won unchanged and adds 1 to number_of_games; times_won   *)
(* grows by 1 and the state is Won iff first_door = winning_door,          *)
(* otherwise times_won is unchanged and the state is Lost.                 *)
C8_StayingPress ==
  ( /\ LastCallIn(FIRST_DOOR_OPEN)
    /\ new_door_press = prev.first_door ) =>
    /\ game_state.times_switched = prev.times_switched
    /\ game_state.times_switched_won = prev.times_switched_won
    /\ game_state.number_of_games = prev.number_of_games + 1
    /\ IF prev.first_door = prev.winning_door
       THEN /\ game_state.state = GAME_OVER_WON
            /\ game_state.times_won = prev.times_won + 1
       ELSE /\ game_state.state = GAME_OVER_LOST
            /\ game_state.times_won = prev.times_won

\* a stay that loses, after a round that was switched and won
C8_Witness ==
  /\ LastCallIn(FIRST_DOOR_OPEN)
  /\ new_door_press = prev.first_door
  /\ prev.first_door # prev.winning_door
  /\ game_state.state = GAME_OVER_LOST
  /\ prev.times_switched_won = 1
  /\ game_state.number_of_games = 2

(* C9: in Won or Lost a press of a valid door moves to Started, changes no *)
(* counter, makes no rand() call and assigns none of first_door, open_door *)
(* and winning_door.                                                       *)
C9_GameOverPressOnlyRestarts ==
  (LastCallIn(GAME_OVER_WON) \/ LastCallIn(GAME_OVER_LOST)) =>
    /\ game_state.state = MONTY_GAME_STARTED
    /\ Counters(game_state) = Counters(prev)
    /\ RoundDoors(game_state) = RoundDoors(prev)
    /\ rand_calls = 0

\* the restart press after a won round
C9_Witness ==
  /\ LastCallIn(GAME_OVER_WON)
  /\ game_state.state = MONTY_GAME_STARTED
  /\ game_state.times_won = 1
  /\ game_state.first_door \in Doors

(* C10: the counters change only on the press that leaves FirstDoorOpen    *)
(* for Won or Lost: number_of_games grows by exactly 1 there and equals    *)
(* the number of such transitions, every counter grows by at most 1 per    *)
(* press, and no counter changes on any other press.                       *)
C10_Step ==
  LET leaving == /\ game_state.state = FIRST_DOOR_OPEN
                 /\ game_state'.state \in {GAME_OVER_WON, GAME_OVER_LOST}
  IN  /\ game_state'.number_of_games
           = game_state.number_of_games + (IF leaving THEN 1 ELSE 0)
      /\ game_state'.number_of_games = rounds_completed'
      /\ ~leaving => Counters(game_state') = Counters(game_state)
      /\ \A k \in 1..4 :
            Counters(game_state')[k] - Counters(game_state)[k] \in {0, 1}

C10_CountersChangeOncePerRound == [][C10_Step]_vars

\* two rounds completed, the second one after a rejected press
C10_Witness ==
  /\ rounds_completed = 2
  /\ game_state.number_of_games = 2
  /\ LastCallIn(FIRST_DOOR_OPEN)
  /\ game_state.state = GAME_OVER_LOST
  /\ game_state.times_switched = 1

(* C5: handle_door_press called with DOOR_NOT_PRESSED, or with any door    *)
(* value outside 1..3, reports an error result instead of 0 and does not   *)
(* process the value: the controller is left as it was.                    *)
C5_InvalidDoorFailsFast ==
  (calls = 1 /\ new_door_press \notin Doors) =>
    /\ result # 0
    /\ game_state = prev

(* C11: for a non-NULL controller and a valid door, handle_door_press      *)
(* returns -1 iff the state is FirstDoorOpen and the door is open_door;    *)
(* in every other case it returns 0 and the state field has changed.       *)
C11_RejectedIffOpenDoorPressed ==
  calls = 1 =>
    /\ (result = -1) <=> (prev.state = FIRST_DOOR_OPEN
                          /\ new_door_press = prev.open_door)
    /\ result # -1 => (result = 0 /\ game_state.state # prev.state)

\* a rejected press right after an accepted restart and start
C11_Witness ==
  /\ LastCallIn(FIRST_DOOR_OPEN)
  /\ new_door_press = prev.open_door
  /\ result = -1
  /\ game_state.number_of_games = 1

C15_Step ==
  /\ game_state.state # MONTY_GAME_STARTED =>
        /\ game_state'.first_door = game_state.first_door
        /\ game_state'.winning_door = game_state.winning_door
  /\ (game_state.state = MONTY_GAME_STARTED /\ calls' = 1 /\ prev' = game_state) =>
        /\ game_state'.first_door = new_door_press'
        /\ game_state'.state = FIRST_DOOR_OPEN

C15_RoundDoorsWrittenOncePerRound == [][C15_Step]_vars

\* a switched and won round, after the resolving press and the restart press
C15_Witness ==
  /\ LastCallIn(GAME_OVER_WON)
  /\ game_state.state = MONTY_GAME_STARTED
  /\ game_state.first_door = 2
  /\ game_state.winning_door = 3
  /\ game_state.times_switched_won = 1

(* C16: the state changes only along Started -> FirstDoorOpen,             *)
(* FirstDoorOpen -> FirstDoorOpen (rejected press), FirstDoorOpen -> Won,  *)
(* FirstDoorOpen -> Lost, Won -> Started, Lost -> Started; a press in      *)
(* FirstDoorOpen of a door other than open_door ends the round at once.    *)
C16_Edges ==
  { <<MONTY_GAME_STARTED, FIRST_DOOR_OPEN>>,
    <<FIRST_DOOR_OPEN, FIRST_DOOR_OPEN>>,
    <<FIRST_DOOR_OPEN, GAME_OVER_WON>>,
    <<FIRST_DOOR_OPEN, GAME_OVER_LOST>>,
    <<GAME_OVER_WON, MONTY_GAME_STARTED>>,
    <<GAME_OVER_LOST, MONTY_GAME_STARTED>> }

C16_Step ==
  /\ <<game_state.state, game_state'.state>> \in C16_Edges
  /\ game_state.state = FIRST_DOOR_OPEN =>
        IF new_door_press' = game_state.open_door
        THEN game_state'.state = FIRST_DOOR_OPEN
        ELSE game_state'.state \in {GAME_OVER_WON, GAME_OVER_LOST}

C16_StateMachineEdges == [][C16_Step]_vars

\* a lost round was left through Lost, not straight to Started
C16_Witness ==
  /\ LastCallIn(GAME_OVER_LOST)
  /\ game_state.state = MONTY_GAME_STARTED
  /\ game_state.number_of_games = 2

(* C17: a Started press makes one rand() call for the winning door and one *)
(* more iff first_door = winning_door; when they differ the opened door is *)
(* the one remaining door whatever rand() would return; presses handled in *)
(* FirstDoorOpen, Won or Lost make no rand() call.                         *)
C17_RandomnessOnlyAtRoundStart ==
  calls = 1 =>
    IF prev.state = MONTY_GAME_STARTED
    THEN /\ rand_calls = (IF game_state.first_door = game_state.winning_door
                          THEN 2 ELSE 1)
         /\ game_state.first_door # game_state.winning_door =>
              /\ Doors = {game_state.first_door, game_state.winning_door,
                          game_state.open_door}
              /\ \A r \in RandValues :
                    pick_open_door(game_state.winning_door,
                                   game_state.first_door, r)
                      = game_state.open_door
    ELSE rand_calls = 0

\* a round started on a losing door: one rand() call only
C17_Witness ==
  /\ LastCallIn(MONTY_GAME_STARTED)
  /\ game_state.first_door = 3
  /\ game_state.winning_door = 1
  /\ game_state.open_door = 2
  /\ rand_calls = 1

(* C19: a round resolved by the switch door (neither first_door nor        *)
(* open_door) is Won iff first_door # winning_door, a round resolved by    *)
(* first_door is Won iff first_door = winning_door; in every FirstDoorOpen *)
(* state exactly one of the two choices wins.                              *)
C19_ExactlyOneChoiceWins ==
  /\ (LastCallIn(FIRST_DOOR_OPEN) /\ result = 0) =>
        (game_state.state = GAME_OVER_WON) <=>
           (IF new_door_press = prev.first_door
            THEN prev.first_door = prev.winning_door
            ELSE prev.first_door # prev.winning_door)
  /\ game_state.state = FIRST_DOOR_OPEN =>
        LET switch_doors == Doors \ {game_state.first_door, game_state.open_door}
            stay == case_FIRST_DOOR_OPEN(game_state, game_state.first_door)
        IN  /\ Cardinality(switch_doors) = 1
            /\ \A d \in switch_doors :
                 LET switch == case_FIRST_DOOR_OPEN(game_state, d)
                 IN  /\ switch.ret = 0
                     /\ stay.ret = 0
                     /\ (switch.game_state.state = GAME_OVER_WON)
                          <=> (game_state.first_door # game_state.winning_door)
                     /\ (stay.game_state.state = GAME_OVER_WON)
                          <=> (game_state.first_door = game_state.winning_door)
                     /\ (switch.game_state.state = GAME_OVER_WON)
                          # (stay.game_state.state = GAME_OVER_WON)

\* a switch that loses because the first door was the winning door
C19_Witness ==
  /\ LastCallIn(FIRST_DOOR_OPEN)
  /\ result = 0
  /\ new_door_press # prev.first_door
  /\ prev.first_door = prev.winning_door
  /\ game_state.state = GAME_OVER_LOST

(* C12: under every interleaving of the button interrupts with the loop of *)
(* main, the door handed to handle_door_press is in 1..3 and never         *)
(* DOOR_NOT_PRESSED, although g_door_pressed is read once by the test and  *)
(* once more for the argument.                                             *)
C12_MainPassesValidDoor ==
  /\ pc = "call" => g_door_pressed \in Doors
  /\ calls = 1 => new_door_press \in Doors

\* an interrupt changed the mailbox between the test and the call
C12_Witness ==
  /\ pc = "reset"
  /\ calls = 1
  /\ tested \in Doors
  /\ new_door_press \in Doors
  /\ new_door_press # tested

(* C13: in the running program the fields of game_state are modified only  *)
(* inside handle_door_press; between two calls main only reads them.       *)
C13_Step == game_state' # game_state => pc = "call"

C13_OnlyHandleDoorPressWrites == [][C13_Step]_vars

(* C18: the divisions of the game-over report are made with a zero         *)
(* denominator: at the report of the first completed round exactly one of  *)
(* times_switched and number_of_games - times_switched is 0, a zero        *)
(* denominator recurs at every game-over report while the player has only  *)
(* ever stayed or only ever switched, and number_of_games is never 0 there.*)
C18_ZeroDenominatorAtGameOver ==
  (game_over /\ game_state.state \in {GAME_OVER_WON, GAME_OVER_LOST}
             /\ pc \in {"test", "fault"}) =>
    /\ game_state.number_of_games # 0
    /\ "win_pct" \notin zero_divs
    /\ rounds_completed = 1 =>
         Cardinality(zero_divs \cap {"switching_win_pct", "staying_win_pct"}) = 1
    /\ ("switching_win_pct" \in zero_divs) <=> ~ever_switched
    /\ ("staying_win_pct" \in zero_divs) <=> ~ever_stayed

\* the second game-over report of a player who stayed both times
C18_Witness ==
  /\ game_over
  /\ pc = "test"
  /\ game_state.state \in {GAME_OVER_WON, GAME_OVER_LOST}
  /\ rounds_completed = 2
  /\ ~ever_switched
  /\ zero_divs = {"switching_win_pct"}

(* C20: no press is lost or handled twice by the mailbox: a value written  *)
(* by an interrupt is overwritten by a later interrupt or is given to      *)
(* exactly one handle_door_press call, and the reset of g_door_pressed     *)
(* never discards a press that no call was given.                          *)
C20_NoPressLostOrRepeated ==
  /\ ~discarded
  /\ mailbox_passed <= 1

====
